---- MODULE Spec2Model ----
(***************************************************************************)
(* Model of gen-pair-airtable (src/src/lib.rs): the scheduled handler that *)
(* runs gen_pair over every text chunk, the JSON pair extraction, the      *)
(* Airtable upload loop, split_text_into_chunks and the cron expression    *)
(* built at deploy time.                                                   *)
(***************************************************************************)
EXTENDS Integers, Sequences, FiniteSets, TLC

VARIABLES
    \* handler
    data, pos, count, chunk_count, chunks_len, logs, pc,
    \* gen_pair
    built, chat, qa_pairs_vec, up, result,
    \* the outside world as the program drives it
    calls, uploaded, outcomes, returned,
    \* split_text_into_chunks
    raw_text, line_no, current_section, res, cpc,
    \* get_cron_time_with_date / on_deploy
    now, cron

handlerVars == <<data, pos, count, chunk_count, chunks_len, logs, pc>>
genVars     == <<built, chat, qa_pairs_vec, up, result>>
worldVars   == <<calls, uploaded, outcomes, returned>>
pipeVars    == <<handlerVars, genVars, worldVars>>
chunkerVars == <<raw_text, line_no, current_section, res, cpc>>
cronVars    == <<now, cron>>
vars        == <<pipeVars, chunkerVars, cronVars>>

(***************************************************************************)
(* Bounds                                                                  *)
(***************************************************************************)
MaxChunks == 3
MaxPairs == 2
MaxLen == 7

(***************************************************************************)
(* Generic helpers                                                         *)
(***************************************************************************)
RECURSIVE SeqsUpTo(_, _)
SeqsUpTo(S, n) ==
    IF n = 0 THEN {<<>>}
    ELSE LET shorter == SeqsUpTo(S, n - 1)
         IN  shorter \cup {Append(s, x) : s \in {t \in shorter : Len(t) = n - 1}, x \in S}

Last(s) == s[Len(s)]

(***************************************************************************)
(* The completion service's answers (async_openai response, lib.rs:110-126)*)
(***************************************************************************)
Questions == {"Q1", "Q2"}
Answers == {"A1"}
QaEntries == [question : Questions, answer : Answers \cup {"<missing>"}]
GoodEntries == {e \in QaEntries : e.answer # "<missing>"}

\* JSON values a member of the payload object can hold.
QaValues == {[t |-> "array", elems |-> l] : l \in SeqsUpTo(GoodEntries, MaxPairs)}
               \cup {[t |-> "array", elems |-> <<e>>] : e \in QaEntries \ GoodEntries}
               \cup {[t |-> "string", elems |-> <<>>]}
OtherValues == {[t |-> "array", elems |-> <<>>],
                [t |-> "array", elems |-> <<[question |-> "Q2", answer |-> "A1"]>>],
                [t |-> "string", elems |-> <<>>]}
Members == {[key |-> "qa_pairs", value |-> v] : v \in QaValues}
              \cup {[key |-> "other_key", value |-> v] : v \in OtherValues}

\* Message contents: absent, text that is not JSON, JSON that is not an
\* object, or a JSON object given by its members in textual order.
Objects == {[t |-> "object", members |-> <<>>]}
              \cup {[t |-> "object", members |-> <<m>>] : m \in Members}
              \cup {[t |-> "object", members |-> <<m, n>>] : m \in Members, n \in Members}
Payloads == {[t |-> "malformed", members |-> <<>>], [t |-> "string", members |-> <<>>]}
               \cup Objects
NoContent == [t |-> "none", members |-> <<>>]
Contents == {NoContent} \cup Payloads

\* A response: the list of choices, each with its optional message content.
Responses == {[choices |-> <<>>]} \cup {[choices |-> <<[content |-> c]>>] : c \in Contents}
\* The awaited call before it resolves, and resolved to Err(e).
NoChat == [choices |-> <<[content |-> [t |-> "unset", members |-> <<>>]]>>]
ChatErr == [choices |-> <<[content |-> [t |-> "error", members |-> <<>>]]>>]

(***************************************************************************)
(* gen_pair: decoding the payload and extracting the pairs                 *)
(***************************************************************************)
\* Vec<QaPair>: every element needs both string fields.
EntryOk(e) == e.question # "<missing>" /\ e.answer # "<missing>"

ValueOk(v) == v.t = "array" /\ \A i \in 1..Len(v.elems) : EntryOk(v.elems[i])

\* HashMap insertion of the members in textual order: a repeated key keeps
\* the value inserted last.
RECURSIVE InsertAll(_, _)
InsertAll(map, members) ==
    IF members = <<>> THEN map
    ELSE LET m == Head(members)
             grown == [k \in (DOMAIN map) \cup {m.key} |->
                          IF k = m.key THEN m.value.elems ELSE map[k]]
         IN  InsertAll(grown, Tail(members))

EmptyMap == [k \in {} |-> <<>>]

\* Mutant: a decoder that gives an empty map for whatever it cannot decode.
DeserializeLenient(payload) ==
    IF payload.t = "object"
         /\ \A i \in 1..Len(payload.members) : ValueOk(payload.members[i].value)
    THEN [ok |-> TRUE, map |-> InsertAll(EmptyMap, payload.members)]
    ELSE [ok |-> TRUE, map |-> EmptyMap]

\* serde_json::from_str::<HashMap<String, Vec<QaPair>>>
Deserialize(payload) ==
    IF payload.t = "object"
         /\ \A i \in 1..Len(payload.members) : ValueOk(payload.members[i].value)
    THEN [ok |-> TRUE, map |-> InsertAll(EmptyMap, payload.members)]
    ELSE [ok |-> FALSE, map |-> EmptyMap]

\* Mutant: the pairs collected in reverse order.
ToPairsReversed(entries) ==
    [i \in 1..Len(entries) |->
        <<entries[Len(entries) + 1 - i].question, entries[Len(entries) + 1 - i].answer>>]

\* qa_pairs.iter().map(|qa| (qa.question.clone(), qa.answer.clone())).collect()
ToPairs(entries) == [i \in 1..Len(entries) |-> <<entries[i].question, entries[i].answer>>]

\* deserialized.get("qa_pairs")
LookupPairs(map) ==
    IF "qa_pairs" \in DOMAIN map THEN ToPairs(map["qa_pairs"]) ELSE <<>>

\* Mutant: absent content returns Ok(None) like a failed call.
ExtractPairsAbsentIsNone(content) ==
    IF content.t = "none" THEN [ret |-> "None", pairs |-> <<>>]
    ELSE LET d == Deserialize(content)
         IN  IF d.ok THEN [ret |-> "continue", pairs |-> LookupPairs(d.map)]
             ELSE [ret |-> "None", pairs |-> <<>>]

\* What lines 125-142 leave in qa_pairs_vec for the first choice's content,
\* or the early return of Ok(None).
ExtractPairs(content) ==
    IF content.t = "none" THEN [ret |-> "continue", pairs |-> <<>>]
    ELSE LET d == Deserialize(content)
         IN  IF d.ok THEN [ret |-> "continue", pairs |-> LookupPairs(d.map)]
             ELSE [ret |-> "None", pairs |-> <<>>]

\* serde_json::json!({"Question": question, "Answer": answer})
UploadRecord(pair) == [Question |-> pair[1], Answer |-> pair[2]]

Unset == [kind |-> "unset", pairs |-> <<>>]
OkSome(pairs) == [kind |-> "Some", pairs |-> pairs]
OkNone == [kind |-> "None", pairs |-> <<>>]
ErrResult == [kind |-> "Err", pairs |-> <<>>]

(***************************************************************************)
(* handler: the driver loop                                                *)
(***************************************************************************)
\* Mutant: one increment per successful chunk instead of one per pair.
TallyPerChunk(c, r) == IF r.kind = "Some" THEN c + 1 ELSE c

\* The match on gen_pair's result: one increment per returned pair.
Tally(c, r) == IF r.kind = "Some" THEN c + Len(r.pairs) ELSE c

InfoLine(c, cc, cl) == [level |-> "info", count |-> c, chunk_count |-> cc, chunks_len |-> cl]
WarnLine == [level |-> "warn", count |-> 0, chunk_count |-> 0, chunks_len |-> 0]
ErrorLine == [level |-> "error", count |-> 0, chunk_count |-> 0, chunks_len |-> 0]

ResultLines(r) ==
    IF r.kind = "None" THEN <<WarnLine>>
    ELSE IF r.kind = "Err" THEN <<ErrorLine>>
    ELSE <<>>

PipeInit ==
    /\ \E n \in 0..MaxChunks : data = [i \in 1..n |-> i]
    /\ pos = 0
    /\ count = 0
    /\ chunk_count = 0
    /\ chunks_len = Len(data)
    /\ logs = <<>>
    /\ pc = "loop"
    /\ built = "none"
    /\ chat = NoChat
    /\ qa_pairs_vec = <<>>
    /\ up = 0
    /\ result = Unset
    /\ calls = <<>>
    /\ uploaded = <<>>
    /\ outcomes = <<>>
    /\ returned = <<>>

\* for user_input in data { chunk_count += 1; gen_pair(&user_input) ...
HandlerNextChunk ==
    /\ pc = "loop"
    /\ pos < Len(data)
    /\ pos' = pos + 1
    /\ chunk_count' = chunk_count + 1
    /\ pc' = "build_sys"
    /\ UNCHANGED <<chunkerVars, cronVars, data, count, chunks_len, logs, genVars, worldVars>>

\* The iterator is exhausted: handler returns.
HandlerReturn ==
    /\ pc = "loop"
    /\ pos = Len(data)
    /\ pc' = "done"
    /\ UNCHANGED <<chunkerVars, cronVars, data, pos, count, chunk_count, chunks_len, logs, genVars, worldVars>>

\* Where a failed build of the system message leaves gen_pair: .expect()
SystemMessageFailure == "panicked"

\* ChatCompletionRequestSystemMessageArgs ... .build().expect(..)
BuildSystemMessage ==
    /\ pc = "build_sys"
    /\ \E ok \in BOOLEAN :
          IF ok THEN pc' = "build_user" /\ built' = "system"
          ELSE pc' = SystemMessageFailure /\ built' = "system failed"
    /\ UNCHANGED <<chunkerVars, cronVars, data, pos, count, chunk_count, chunks_len, logs,
                   chat, qa_pairs_vec, up, result, worldVars>>

\* ChatCompletionRequestUserMessageArgs ... .build()?
BuildUserMessage ==
    /\ pc = "build_user"
    /\ \E ok \in BOOLEAN :
          IF ok THEN pc' = "build_req" /\ result' = result /\ built' = "user"
          ELSE pc' = "match" /\ result' = ErrResult /\ built' = "user failed"
    /\ UNCHANGED <<chunkerVars, cronVars, data, pos, count, chunk_count, chunks_len, logs,
                   chat, qa_pairs_vec, up, worldVars>>

\* CreateChatCompletionRequestArgs ... .build()?  and, built, the request is
\* sent: client.chat().create(request)
BuildRequest ==
    /\ pc = "build_req"
    /\ \E ok \in BOOLEAN :
          IF ok
          THEN /\ pc' = "requested"
               /\ built' = "request"
               /\ result' = result
               /\ calls' = Append(calls, [op |-> "create", chunk |-> pos, idx |-> 0])
          ELSE /\ pc' = "match"
               /\ built' = "request failed"
               /\ result' = ErrResult
               /\ calls' = calls
    /\ UNCHANGED <<chunkerVars, cronVars, data, pos, count, chunk_count, chunks_len, logs,
                   chat, qa_pairs_vec, up, uploaded, outcomes, returned>>

\* .await resolves to Err(e): log and return Ok(None)
ChatFailed ==
    /\ pc = "requested"
    /\ chat' = ChatErr
    /\ result' = OkNone
    /\ pc' = "match"
    /\ UNCHANGED <<chunkerVars, cronVars, data, pos, count, chunk_count, chunks_len, logs,
                   built, qa_pairs_vec, up, worldVars>>

\* Where reading chat.choices[0] leaves gen_pair when there is no choice:
\* the index is out of bounds.
NoChoice == [pc |-> "panicked", result |-> Unset, pairs |-> <<>>]

\* The synchronous stretch from the response to the upload loop.
AfterResponse(r) ==
    IF r.choices = <<>> THEN NoChoice
    ELSE LET x == ExtractPairs(r.choices[1].content)
         IN  IF x.ret = "None"
             THEN [pc |-> "match", result |-> OkNone, pairs |-> <<>>]
             ELSE [pc |-> "upload", result |-> Unset, pairs |-> x.pairs]

\* .await resolves to Ok(chat)
ChatReceived ==
    /\ pc = "requested"
    /\ \E r \in Responses :
          /\ chat' = r
          /\ pc' = AfterResponse(r).pc
          /\ result' = AfterResponse(r).result
          /\ qa_pairs_vec' = AfterResponse(r).pairs
    /\ UNCHANGED <<chunkerVars, cronVars, data, pos, count, chunk_count, chunks_len, logs,
                   built, up, worldVars>>

\* for (question, answer) in &qa_pairs_vec { upload_airtable(..).await }
\* create_record's outcome is discarded.
UploadAirtable ==
    /\ pc = "upload"
    /\ up < Len(qa_pairs_vec)
    /\ up' = up + 1
    /\ uploaded' = Append(uploaded, UploadRecord(qa_pairs_vec[up + 1]))
    /\ calls' = Append(calls, [op |-> "upload", chunk |-> pos, idx |-> up + 1])
    /\ \E ok \in BOOLEAN : outcomes' = Append(outcomes, ok)
    /\ UNCHANGED <<chunkerVars, cronVars, handlerVars, built, chat, qa_pairs_vec, result, returned>>

\* Mutant: the upload loop is left as soon as one upload has failed.
GenPairReturnOnUploadFailure ==
    /\ pc = "upload"
    /\ up = Len(qa_pairs_vec) \/ (outcomes # <<>> /\ ~Last(outcomes))
    /\ result' = OkSome(qa_pairs_vec)
    /\ pc' = "match"
    /\ UNCHANGED <<chunkerVars, cronVars, data, pos, count, chunk_count, chunks_len, logs,
                   built, chat, qa_pairs_vec, up, worldVars>>

\* Ok(Some(qa_pairs_vec))
GenPairReturn ==
    /\ pc = "upload"
    /\ up = Len(qa_pairs_vec)
    /\ result' = OkSome(qa_pairs_vec)
    /\ pc' = "match"
    /\ UNCHANGED <<chunkerVars, cronVars, data, pos, count, chunk_count, chunks_len, logs,
                   built, chat, qa_pairs_vec, up, worldVars>>

\* match gen_pair(..).await { .. }  followed by the progress line; the call's
\* locals and its result are gone once the match has consumed them.
HandleResult ==
    /\ pc = "match"
    /\ count' = Tally(count, result)
    /\ logs' = logs \o ResultLines(result)
                    \o <<InfoLine(Tally(count, result), chunk_count, chunks_len)>>
    /\ returned' = Append(returned, [kind |-> result.kind, n |-> Len(result.pairs)])
    /\ pc' = "loop"
    /\ built' = "none"
    /\ chat' = NoChat
    /\ qa_pairs_vec' = <<>>
    /\ up' = 0
    /\ result' = Unset
    /\ uploaded' = <<>>
    /\ outcomes' = <<>>
    /\ UNCHANGED <<chunkerVars, cronVars, data, pos, chunk_count, chunks_len, calls>>

Next ==
    \/ HandlerNextChunk
    \/ HandlerReturn
    \/ BuildSystemMessage
    \/ BuildUserMessage
    \/ BuildRequest
    \/ ChatFailed
    \/ ChatReceived
    \/ UploadAirtable
    \/ GenPairReturn
    \/ HandleResult

ChunkerIdle ==
    /\ raw_text = <<>>
    /\ line_no = 0
    /\ current_section = <<>>
    /\ res = <<>>
    /\ cpc = "idle"

CronIdle ==
    /\ now = [month |-> 1, day |-> 1, hour |-> 0, minute |-> 0, leap |-> FALSE]
    /\ cron = <<>>

Init == PipeInit /\ ChunkerIdle /\ CronIdle
Spec == Init /\ [][Next]_vars

(***************************************************************************)
(* Properties of the pipeline (handler, gen_pair, upload_airtable)         *)
(***************************************************************************)
BuildFailed == built \in {"system failed", "user failed", "request failed"}
ServiceFailed == chat = ChatErr
Responded == chat \notin {NoChat, ChatErr}
HasChoice == Responded /\ chat.choices # <<>>
Content == chat.choices[1].content
AbsentContent == HasChoice /\ Content.t = "none"

\* A JSON object whose every value is a list of {question, answer} objects.
WellShaped(p) ==
    /\ p.t = "object"
    /\ \A i \in 1..Len(p.members) :
          /\ p.members[i].value.t = "array"
          /\ \A j \in 1..Len(p.members[i].value.elems) :
                /\ p.members[i].value.elems[j].question \in Questions
                /\ p.members[i].value.elems[j].answer \in Answers

Undecodable == HasChoice /\ Content.t # "none" /\ ~WellShaped(Content)
Decoded == HasChoice /\ Content.t # "none" /\ WellShaped(Content)

QaMembers(p) == {i \in 1..Len(p.members) : p.members[i].key = "qa_pairs"}
\* The list the object maps qa_pairs to (its last occurrence, as JSON
\* objects with a repeated key are read).
QaList(p) ==
    LET i == CHOOSE k \in QaMembers(p) : \A m \in QaMembers(p) : m <= k
    IN  p.members[i].value.elems

RecordsOf(pairs) ==
    [i \in 1..Len(pairs) |-> [Question |-> pairs[i][1], Answer |-> pairs[i][2]]]

InfoCount == Cardinality({i \in 1..Len(logs) : logs[i].level = "info"})

RECURSIVE PairsReturned(_)
PairsReturned(rs) ==
    IF rs = <<>> THEN 0
    ELSE (IF Head(rs).kind = "Some" THEN Head(rs).n ELSE 0) + PairsReturned(Tail(rs))

UploadsFor(k) == {i \in 1..Len(calls) : calls[i].op = "upload" /\ calls[i].chunk = k}

\* C1: whatever the outcomes of the chunks, the run ends with every chunk
\* attempted: the handler returns normally, the processed-chunk counter
\* equals the number of chunks and one progress line was logged per chunk.
C1_EveryChunkAttempted ==
    pc \in {"done", "panicked"} =>
        /\ pc = "done"
        /\ chunk_count = Len(data)
        /\ InfoCount = Len(data)

\* C2: the pair counter always equals the number of pairs returned for the
\* chunks handled so far (failed chunks add 0) and is what the last progress
\* line shows; it never decreases, and no upload, failed or not, changes it.
C2_PairCounter ==
    /\ [](/\ count = PairsReturned(returned)
          /\ (pc = "loop" /\ logs # <<>> => Last(logs).count = count))
    /\ [][/\ count' >= count
          /\ (UploadAirtable => count' = count)]_vars

C2_Witness ==
    /\ pc = "match"
    /\ returned = <<[kind |-> "Some", n |-> 1], [kind |-> "None", n |-> 0]>>
    /\ result.kind = "Some"
    /\ outcomes = <<FALSE>>
    /\ count = 1

\* C3: a failed service call or an undecodable payload makes gen_pair return
\* Ok(None) with no upload; the handler then leaves the counter as it is,
\* logs the warning and the progress line, and goes on with the loop.
C3_FailureIsNoResult ==
    /\ [](ServiceFailed \/ Undecodable =>
            pc = "match" /\ result = OkNone /\ uploaded = <<>>)
    /\ [][ServiceFailed \/ Undecodable =>
            /\ count' = count
            /\ pc' = "loop"
            /\ pos' = pos
            /\ logs' = logs \o <<WarnLine, InfoLine(count, chunk_count, chunks_len)>>]_vars

C3_Witness ==
    /\ pc = "match"
    /\ Undecodable
    /\ pos = 2
    /\ pos < Len(data)
    /\ returned = <<[kind |-> "None", n |-> 0]>>

\* C4 (as claimed): absent content of the first choice gives the same
\* "no result" outcome as a failed service call.
C4_AbsentContentIsNoResult ==
    pc = "match" /\ AbsentContent => result = OkNone

\* C4 (amended): absent content of the first choice gives a successful
\* result holding an empty list of pairs, with no upload.
C4_AbsentContentIsEmptySuccess ==
    AbsentContent =>
        /\ pc \in {"upload", "match"}
        /\ qa_pairs_vec = <<>>
        /\ uploaded = <<>>
        /\ (pc = "match" => result = OkSome(<<>>))

C4_Witness == pc = "match" /\ AbsentContent

\* C5: a failed build of the system message, the user message or the
\* request comes back from gen_pair as an error result, with no upload, and
\* the run goes on.
C5_BuildFailurePropagated ==
    BuildFailed => pc = "match" /\ result = ErrResult /\ uploaded = <<>>

\* C6: a decoded payload without the qa_pairs key gives Ok(Some([])); with
\* the key, the result holds one (question, answer) pair per list entry, in
\* list order, duplicates kept.
C6_PairsFollowTheList ==
    Decoded =>
        /\ pc \in {"upload", "match"}
        /\ (pc = "match" => result = OkSome(qa_pairs_vec))
        /\ IF QaMembers(Content) = {} THEN qa_pairs_vec = <<>>
           ELSE /\ Len(qa_pairs_vec) = Len(QaList(Content))
                /\ \A i \in 1..Len(qa_pairs_vec) :
                      qa_pairs_vec[i] = <<QaList(Content)[i].question,
                                          QaList(Content)[i].answer>>

C6_Witness ==
    /\ pc = "match"
    /\ Decoded
    /\ result = OkSome(<<<<"Q1", "A1">>, <<"Q1", "A1">>>>)

\* C9: a chunk whose response was received and parsed, whose request failed
\* or whose payload failed to parse always moves on to the handled state;
\* only a parsed chunk uploads, one record {Question, Answer} per pair in
\* list order whatever earlier uploads returned, and all of a chunk's
\* uploads precede the next chunk's completion request.
C9_UploadsOnlyWhenParsed ==
    /\ [](/\ Len(outcomes) = Len(uploaded)
          /\ Len(uploaded) = up
          /\ up <= Len(qa_pairs_vec)
          /\ uploaded = RecordsOf(SubSeq(qa_pairs_vec, 1, up))
          /\ (pc = "match" =>
                IF result.kind = "Some" THEN uploaded = RecordsOf(result.pairs)
                ELSE uploaded = <<>>)
          /\ (pc = "upload" => ENABLED UploadAirtable \/ ENABLED GenPairReturn)
          /\ (pc = "match" => ENABLED HandleResult)
          /\ \A i \in 1..Len(calls) : \A j \in 1..Len(calls) :
                /\ (i < j => calls[i].chunk <= calls[j].chunk)
                /\ (i < j /\ calls[i].chunk = calls[j].chunk =>
                        calls[j].op = "upload" /\ calls[j].idx = calls[i].idx + (j - i))
          /\ \A k \in 1..Len(returned) :
                Cardinality(UploadsFor(k)) =
                    IF returned[k].kind = "Some" THEN returned[k].n ELSE 0)
    /\ [][/\ (pc = "upload" => (pc' = "upload" /\ up' = up + 1) \/ pc' = "match")
          /\ (pc = "match" => pc' = "loop")]_vars

C9_Witness ==
    /\ pc = "match"
    /\ pos = 2
    /\ returned = <<[kind |-> "Some", n |-> 1]>>
    /\ Len(calls) = 5
    /\ outcomes = <<FALSE, TRUE>>
    /\ uploaded = <<[Question |-> "Q2", Answer |-> "A1"], [Question |-> "Q1", Answer |-> "A1"]>>

(***************************************************************************)
(* split_text_into_chunks                                                  *)
(***************************************************************************)
NL == "\n"
CR == "\r"
Chars == {"a", " ", NL, CR}
Whitespace == {" ", NL, CR}
Texts == SeqsUpTo(Chars, MaxLen)

\* Index of the first newline of s, or 0.
FirstNL(s) ==
    IF \E i \in 1..Len(s) : s[i] = NL
    THEN CHOOSE i \in 1..Len(s) : s[i] = NL /\ \A j \in 1..(i - 1) : s[j] # NL
    ELSE 0

StripCR(s) == IF s # <<>> /\ Last(s) = CR THEN SubSeq(s, 1, Len(s) - 1) ELSE s

\* str::lines(): the text cut after every "\n"; a line loses its "\n" and a
\* "\r" just before it; a final line without "\n" is kept as it is.
RECURSIVE Lines(_)
Lines(s) ==
    IF s = <<>> THEN <<>>
    ELSE LET k == FirstNL(s)
         IN  IF k = 0 THEN <<s>>
             ELSE <<StripCR(SubSeq(s, 1, k - 1))>> \o Lines(SubSeq(s, k + 1, Len(s)))

RECURSIVE TrimStart(_)
TrimStart(s) ==
    IF s # <<>> /\ Head(s) \in Whitespace THEN TrimStart(Tail(s)) ELSE s

RECURSIVE TrimEnd(_)
TrimEnd(s) ==
    IF s # <<>> /\ Last(s) \in Whitespace THEN TrimEnd(SubSeq(s, 1, Len(s) - 1)) ELSE s

\* str::trim()
Trim(s) == TrimEnd(TrimStart(s))

\* line.trim().is_empty()
IsBlank(line) == Trim(line) = <<>>

\* if !line.trim().is_empty() { push_str(line); push('\n') }
PushLine(section, line) ==
    IF ~IsBlank(line) THEN section \o line \o <<NL>> ELSE section

\* Mutant: every blank line flushes, whatever the buffer holds.
FlushesOnAnyBlank(section, line) == IsBlank(line)

\* if line.trim().is_empty() && !current_section.trim().is_empty()
Flushes(section, line) == IsBlank(line) /\ ~IsBlank(section)

\* current_section.clear()
Cleared(section) == <<>>

ChunkerStart ==
    /\ raw_text \in Texts
    /\ line_no = 0
    /\ current_section = <<>>
    /\ res = <<>>
    /\ cpc = "lines"

PipeIdle ==
    /\ data = <<>>
    /\ pos = 0
    /\ count = 0
    /\ chunk_count = 0
    /\ chunks_len = 0
    /\ logs = <<>>
    /\ pc = "idle"
    /\ built = "none"
    /\ chat = NoChat
    /\ qa_pairs_vec = <<>>
    /\ up = 0
    /\ result = Unset
    /\ calls = <<>>
    /\ uploaded = <<>>
    /\ outcomes = <<>>
    /\ returned = <<>>

\* One iteration of  for line in raw_text.lines() { .. }
ChunkerLine ==
    /\ cpc = "lines"
    /\ line_no < Len(Lines(raw_text))
    /\ LET line == Lines(raw_text)[line_no + 1]
           section == PushLine(current_section, line)
       IN  IF Flushes(section, line)
           THEN /\ res' = Append(res, section)
                /\ current_section' = Cleared(section)
           ELSE /\ res' = res
                /\ current_section' = section
    /\ line_no' = line_no + 1
    /\ UNCHANGED <<raw_text, cpc, pipeVars, cronVars>>

\* Mutant: the buffer left at the end of the input is flushed too.
ChunkerReturnFlushing ==
    /\ cpc = "lines"
    /\ line_no = Len(Lines(raw_text))
    /\ cpc' = "done"
    /\ res' = IF IsBlank(current_section) THEN res ELSE Append(res, current_section)
    /\ UNCHANGED <<raw_text, line_no, current_section, pipeVars, cronVars>>

\* The iterator is exhausted: res is returned.
ChunkerReturn ==
    /\ cpc = "lines"
    /\ line_no = Len(Lines(raw_text))
    /\ cpc' = "done"
    /\ UNCHANGED <<raw_text, line_no, current_section, res, pipeVars, cronVars>>

ChunkerNext ==
    \/ ChunkerLine
    \/ ChunkerReturn

ChunkerInit == ChunkerStart /\ PipeIdle /\ CronIdle
ChunkerSpec == ChunkerInit /\ [][ChunkerNext]_vars

(***************************************************************************)
(* Properties of split_text_into_chunks                                    *)
(***************************************************************************)
NLPos(t) == {i \in 1..Len(t) : t[i] = NL}
NthNL(t, k) == CHOOSE i \in NLPos(t) : Cardinality({j \in NLPos(t) : j <= i}) = k
LineCount(t) ==
    Cardinality(NLPos(t)) + (IF t # <<>> /\ Last(t) # NL THEN 1 ELSE 0)

\* Line k of the text: what lies between newline k-1 and newline k, without
\* the carriage return of a "\r\n" ending.
TextLine(t, k) ==
    LET first == IF k = 1 THEN 1 ELSE NthNL(t, k - 1) + 1
        ended == k <= Cardinality(NLPos(t))
        last  == IF ended THEN NthNL(t, k) - 1 ELSE Len(t)
        body  == SubSeq(t, first, last)
    IN  IF ended /\ body # <<>> /\ Last(body) = CR
        THEN SubSeq(body, 1, Len(body) - 1) ELSE body

Blank(l) == \A i \in 1..Len(l) : l[i] \in Whitespace

\* The blank lines that end a section: those just after a non-blank line.
Terminators(t) ==
    {k \in 2..LineCount(t) : Blank(TextLine(t, k)) /\ ~Blank(TextLine(t, k - 1))}

\* First line of the maximal run of non-blank lines that ends at line k.
RunStart(t, k) ==
    CHOOSE j \in 1..k :
        /\ \A m \in j..k : ~Blank(TextLine(t, m))
        /\ (j = 1 \/ Blank(TextLine(t, j - 1)))

RECURSIVE JoinLines(_, _, _)
JoinLines(t, j, k) ==
    IF j > k THEN <<>> ELSE TextLine(t, j) \o <<NL>> \o JoinLines(t, j + 1, k)

RECURSIVE Ascending(_)
Ascending(S) ==
    IF S = {} THEN <<>>
    ELSE LET m == CHOOSE x \in S : \A y \in S : x <= y
         IN  <<m>> \o Ascending(S \ {m})

TerminatedSections(t) ==
    LET ks == Ascending(Terminators(t))
    IN  [i \in 1..Len(ks) |-> JoinLines(t, RunStart(t, ks[i] - 1), ks[i] - 1)]

\* C7: the chunks returned are exactly the sections of the text that a blank
\* line terminates, in document order; an unterminated last section is
\* dropped, so a text without blank line, and the empty text, give no chunk.
C7_ChunksAreTerminatedSections ==
    cpc = "done" =>
        /\ res = TerminatedSections(raw_text)
        /\ ((\A k \in 1..LineCount(raw_text) : ~Blank(TextLine(raw_text, k))) => res = <<>>)

C7_Witness ==
    /\ cpc = "done"
    /\ Len(res) = 2
    /\ current_section # <<>>

\* A line of the chunk, ended by the newline at position i, is blank.
BlankLineAt(chunk, i) ==
    /\ chunk[i] = NL
    /\ \A j \in 1..(i - 1) :
          (\A m \in j..(i - 1) : chunk[m] # NL) => chunk[j] \in Whitespace

\* C8: every chunk emitted is a non-empty run of newline-terminated lines
\* none of which is blank, and the buffer is empty right after an emission.
C8_ChunksNonEmptyNoBlankLine ==
    /\ [](\A n \in 1..Len(res) :
            /\ res[n] # <<>>
            /\ Last(res[n]) = NL
            /\ \A i \in 1..Len(res[n]) : ~BlankLineAt(res[n], i))
    /\ [][Len(res') > Len(res) => current_section' = <<>>]_vars

C8_Witness ==
    /\ cpc = "done"
    /\ raw_text = <<NL, "a", NL, " ", NL, NL>>
    /\ res = << <<"a", NL>> >>

(***************************************************************************)
(* get_cron_time_with_date, called by on_deploy                            *)
(***************************************************************************)
Months == 1..12
Hours == 0..23
Minutes == 0..59

DaysIn(month, leap) ==
    IF month = 2 THEN (IF leap THEN 29 ELSE 28)
    ELSE IF month \in {4, 6, 9, 11} THEN 30
    ELSE 31

\* Local::now(): the fields of the local date and time the code reads.
Clocks ==
    {c \in [month : Months, day : 1..31, hour : Hours, minute : Minutes, leap : BOOLEAN] :
        /\ c.day <= DaysIn(c.month, c.leap)
        /\ c.day \in {1, 15} \cup {DaysIn(c.month, c.leap)}}

DigitChars == <<"0", "1", "2", "3", "4", "5", "6", "7", "8", "9">>

RECURSIVE Decimal(_)
Decimal(n) ==
    IF n < 10 THEN <<DigitChars[n + 1]>>
    ELSE Decimal(n \div 10) \o <<DigitChars[(n % 10) + 1]>>

\* format!("{:02}", n): decimal digits, zero-padded to a width of two.
Fmt02(n) == IF Len(Decimal(n)) < 2 THEN <<"0">> \o Decimal(n) ELSE Decimal(n)

\* let now_minute = now.minute() + 2;
NowMinute(c) == c.minute + 2

\* format!("{:02} {:02} {:02} {:02} *", now_minute, hour, day, month)
CronTimeWithDate(c) ==
    <<Fmt02(NowMinute(c)), Fmt02(c.hour), Fmt02(c.day), Fmt02(c.month), <<"*">>>>

CronStart ==
    /\ now \in Clocks
    /\ cron = <<>>

\* on_deploy: schedule_cron_job(get_cron_time_with_date(), ..)
OnDeploy ==
    /\ cron = <<>>
    /\ cron' = CronTimeWithDate(now)
    /\ UNCHANGED <<now, pipeVars, chunkerVars>>

CronNext == OnDeploy

CronInit == CronStart /\ PipeIdle /\ ChunkerIdle
CronSpec == CronInit /\ [][CronNext]_vars

(***************************************************************************)
(* Properties of the cron expression                                       *)
(***************************************************************************)
DigitValue(ch) == CHOOSE d \in 0..9 : DigitChars[d + 1] = ch

RECURSIVE FieldValue(_)
FieldValue(f) ==
    IF f = <<>> THEN 0
    ELSE 10 * FieldValue(SubSeq(f, 1, Len(f) - 1)) + DigitValue(Last(f))

\* The instant two minutes after the clock reading c.
TwoMinutesLater(c) ==
    LET m  == c.minute + 2
        h  == c.hour + (IF m >= 60 THEN 1 ELSE 0)
        d  == c.day + (IF h >= 24 THEN 1 ELSE 0)
        mo == c.month + (IF d > DaysIn(c.month, c.leap) THEN 1 ELSE 0)
    IN  [minute |-> m % 60,
         hour   |-> h % 24,
         day    |-> IF d > DaysIn(c.month, c.leap) THEN 1 ELSE d,
         month  |-> IF mo > 12 THEN 1 ELSE mo]

\* C10: the cron expression names the instant two minutes after the clock
\* reading: a minute within 0..59 and that instant's hour, day and month.
C10_CronIsTwoMinutesLater ==
    cron # <<>> =>
        /\ FieldValue(cron[1]) \in 0..59
        /\ FieldValue(cron[1]) = TwoMinutesLater(now).minute
        /\ FieldValue(cron[2]) = TwoMinutesLater(now).hour
        /\ FieldValue(cron[3]) = TwoMinutesLater(now).day
        /\ FieldValue(cron[4]) = TwoMinutesLater(now).month
        /\ cron[5] = <<"*">>

====
